---- MODULE Spec2Model ----
(***************************************************************************)
(* A model of kerrokantasi's section layer:                                *)
(*   - democracy/views/section.py: the Section create/update serializer    *)
(*     with its nested images, polls ("questions") and poll options, and   *)
(*     the root image endpoint;                                            *)
(*   - kk/models/section.py and kk/models/scenario.py: the legacy Section  *)
(*     ordering and the comment-count hooks.                               *)
(* The store is modelled as tables (sequences of rows, a row's id is its   *)
(* index); a request is one action that runs the whole handler.            *)
(***************************************************************************)
EXTENDS Integers, Sequences, FiniteSets, TLC

VARIABLES
    sections,   \* democracy Section rows: [title]
    images,     \* democracy SectionImage rows: [section, ordering, deleted]
    polls,      \* SectionPoll rows: [section, text, ordering, n_answers, deleted]
    options,    \* SectionPollOption rows: [poll, text, ordering, deleted]
    last,       \* what the last request was and how it ended
    hearing_org,            \* section id -> the organisation of its hearing
    admin_organizations,    \* user -> the organisations the user administers
    legacy_sections,        \* kk Section rows: [hearing, ordering]
    comments,               \* kk comment rows: [owner, deleted]
    n_comments,             \* kk Scenario / Section: owner -> cached count
    saving                  \* kk Section.save() calls in progress: caller -> position

dbvars == <<sections, images, polls, options>>
orgvars == <<hearing_org, admin_organizations>>
legacyvars == <<legacy_sections, comments, n_comments, saving>>
vars == <<sections, images, polls, options, last, hearing_org, admin_organizations,
          legacy_sections, comments, n_comments, saving>>

(***************************************************************************)
(* Bounds of the model.                                                    *)
(***************************************************************************)
MaxSections == 2
MaxImageRows == 3
MaxImgLen == 2
MaxPollRows == 1
MaxOptionRows == 2
MaxQLen == 1
MaxOptLen == 2
MaxAnswers == 1
MaxSubmitted == 1
MaxLegacyRows == 4
MaxExplicit == 2
MaxComments == 3

\* The translated text values a title or a text may take.
Texts == {"a", "b"}

\* `pk = image_data.get('id')` / `if pk:`: an element without an id; also
\* `self.instance` of a serializer that creates.
NoId == 0

(***************************************************************************)
(* Helpers.                                                                *)
(***************************************************************************)
Range(s) == { s[i] : i \in DOMAIN s }

SetMax(S) == CHOOSE m \in S : \A n \in S : n <= m

SetMin(S) == CHOOSE m \in S : \A n \in S : m <= n

SeqsUpTo(S, n) == UNION { [1..k -> S] : k \in 0..n }

DB == [sections |-> sections, images |-> images, polls |-> polls, options |-> options]

(***************************************************************************)
(* The managers: `section.images`, `section.polls`, `poll.options` go      *)
(* through the default manager, which leaves soft-deleted rows out.        *)
(***************************************************************************)
LiveImages(imgs, sid) ==
    { i \in DOMAIN imgs : imgs[i].section = sid /\ ~imgs[i].deleted }

LivePolls(pls, sid) ==
    { i \in DOMAIN pls : pls[i].section = sid /\ ~pls[i].deleted }

LiveOptions(opts, pid) ==
    { i \in DOMAIN opts : opts[i].poll = pid /\ ~opts[i].deleted }

\* soft_delete(): the flag is set, the row stays.
soft_delete(rows, ids) ==
    [i \in DOMAIN rows |-> IF i \in ids THEN [rows[i] EXCEPT !.deleted = TRUE] ELSE rows[i]]

\* `poll.options.all()` in the model's default order, ascending `ordering`.
RECURSIVE SortByOrdering(_, _)
SortByOrdering(rows, ids) ==
    IF ids = {} THEN <<>>
    ELSE LET first == CHOOSE i \in ids :
                        \A j \in ids : rows[i].ordering < rows[j].ordering
                                       \/ (rows[i].ordering = rows[j].ordering /\ i <= j)
         IN <<first>> \o SortByOrdering(rows, ids \ {first})

OptionsAll(opts, pid) == SortByOrdering(opts, LiveOptions(opts, pid))

(***************************************************************************)
(* Validation results.                                                     *)
(***************************************************************************)
Ok == [status |-> "ok", errors |-> {}]

Invalid(errs) == [status |-> "invalid", errors |-> errs]

\* An exception that is no ValidationError: the request ends in a server error.
Crash(what) == [status |-> "crash", errors |-> {[err |-> what, id |-> NoId]}]

\* 'The Section does not have an image with ID %s'
ImageNotFound(pk) == [err |-> "The Section does not have an image with ID", id |-> pk]

\* 'The Section does not have a poll with ID %s'
PollNotFound(pk) == [err |-> "The Section does not have a poll with ID", id |-> pk]

\* 'The Poll does not have an option with ID %s'
OptionNotFound(pk) == [err |-> "The Poll does not have an option with ID", id |-> pk]

\* 'Poll with ID %s has answers - editing it is not allowed'
PollHasAnswers(pk) == [err |-> "Poll has answers - editing it is not allowed", id |-> pk]

\* The first element of a list whose validation does not pass decides the
\* outcome of the loop over the list.
FirstFailure(results) ==
    LET bad == { i \in DOMAIN results : results[i].status # "ok" }
    IN IF bad = {} THEN Ok ELSE results[SetMin(bad)]

(***************************************************************************)
(* SectionCreateUpdateSerializer.validate_images                           *)
(***************************************************************************)
validate_image(db, instance, image_data) ==
    IF image_data.id = NoId THEN Ok
    ELSE IF instance = NoId THEN Crash("AttributeError")
    ELSE IF image_data.id \notin LiveImages(db.images, instance)
         THEN Invalid({ImageNotFound(image_data.id)})
    ELSE Ok

validate_images(db, instance, data) ==
    FirstFailure([i \in DOMAIN data |-> validate_image(db, instance, data[i])])

(***************************************************************************)
(* SectionPollSerializer.validate_options                                  *)
(***************************************************************************)
validate_option(db, instance, option_data) ==
    IF option_data.id = NoId THEN Ok
    ELSE IF instance = NoId THEN Crash("AttributeError")
    ELSE IF option_data.id \notin LiveOptions(db.options, instance)
         THEN Invalid({OptionNotFound(option_data.id)})
    ELSE Ok

validate_options(db, instance, data) ==
    FirstFailure([i \in DOMAIN data |-> validate_option(db, instance, data[i])])

(***************************************************************************)
(* SectionCreateUpdateSerializer._validate_question_update                 *)
(***************************************************************************)
\* compare_serialized: two translated texts are equal.
compare_serialized(a, b) == a = b

\* The asserts: old_poll_data is the stored poll's text and the texts of
\* its options as the read representation lists them.
SamePoll(old_text, old_options, poll_data) ==
    /\ compare_serialized(old_text, poll_data.text)
    /\ Len(old_options) = Len(poll_data.options)
    /\ \A i \in DOMAIN old_options :
           compare_serialized(old_options[i], poll_data.options[i].text)

OldOptionTexts(opts, ids) == [i \in DOMAIN ids |-> opts[ids[i]].text]

_validate_question_update(db, poll_data, poll) ==
    IF ~(db.polls[poll].n_answers > 0) THEN Ok
    ELSE IF SamePoll(db.polls[poll].text,
                     OldOptionTexts(db.options, OptionsAll(db.options, poll)),
                     poll_data)
    THEN Ok
    ELSE Invalid({PollHasAnswers(poll)})

(***************************************************************************)
(* SectionCreateUpdateSerializer.validate_questions                        *)
(***************************************************************************)
\* One check after another: the second runs when the first has passed.
AndThen(first, second) == IF first.status # "ok" THEN first ELSE second

validate_question(db, instance, poll_data) ==
    IF poll_data.id = NoId THEN validate_options(db, NoId, poll_data.options)
    ELSE IF instance = NoId THEN Crash("AttributeError")
    ELSE IF poll_data.id \notin LivePolls(db.polls, instance)
         THEN Invalid({PollNotFound(poll_data.id)})
    ELSE AndThen(_validate_question_update(db, poll_data, poll_data.id),
                 validate_options(db, poll_data.id, poll_data.options))

validate_questions(db, instance, data) ==
    FirstFailure([i \in DOMAIN data |-> validate_question(db, instance, data[i])])

\* serializer.is_valid(): the fields are validated in the order of
\* Meta.fields (images before questions); the ValidationErrors of the fields
\* are collected, any other exception ends the request at once.
Collect(ri, rq) ==
    IF ri.status = "crash" THEN ri
    ELSE IF rq.status = "crash" THEN rq
    ELSE IF ri.status = "ok" /\ rq.status = "ok" THEN Ok
    ELSE Invalid(ri.errors \cup rq.errors)

is_valid(db, instance, payload) ==
    Collect(validate_images(db, instance, payload.images),
            validate_questions(db, instance, payload.questions))

(***************************************************************************)
(* SectionCreateUpdateSerializer._handle_images                            *)
(***************************************************************************)
\* The loop of serializer.save(section=section): an element with an id
\* rewrites the row it was validated against, one without creates a row; the
\* element at zero-based position index carries ordering = index.
RECURSIVE SaveImages(_, _, _, _)
SaveImages(imgs, section, data, kept) ==
    IF Len(kept) = Len(data) THEN [rows |-> imgs, kept |-> kept]
    ELSE LET index == Len(kept)
             pk == data[index + 1].id
             row == [section |-> section, ordering |-> index, deleted |-> FALSE]
         IN IF pk = NoId
            THEN SaveImages(Append(imgs, row), section, data, Append(kept, Len(imgs) + 1))
            ELSE SaveImages([imgs EXCEPT ![pk] = row], section, data, Append(kept, pk))

\* The loop over the other images left out.
DropOtherImages_mutant(saved, section) == saved

\* `for image in section.images.exclude(id__in=new_image_ids): image.soft_delete()`
DropOtherImages(saved, section) ==
    [rows |-> soft_delete(saved.rows, LiveImages(saved.rows, section) \ Range(saved.kept)),
     kept |-> saved.kept]

_handle_images(imgs, section, data) ==
    DropOtherImages(SaveImages(imgs, section, data, <<>>), section)

(***************************************************************************)
(* SectionPollSerializer._handle_options, create, update                   *)
(***************************************************************************)
\* Zero-based, as validate_images numbers the images.
OptionOrdering_mutant(index) == index

\* `option_data['ordering'] = index + 1`
OptionOrdering(index) == index + 1

RECURSIVE SaveOptions(_, _, _, _)
SaveOptions(opts, poll, data, kept) ==
    IF Len(kept) = Len(data) THEN [rows |-> opts, kept |-> kept]
    ELSE LET index == Len(kept)
             pk == data[index + 1].id
             row == [poll |-> poll, text |-> data[index + 1].text,
                     ordering |-> OptionOrdering(index), deleted |-> FALSE]
         IN IF pk = NoId
            THEN SaveOptions(Append(opts, row), poll, data, Append(kept, Len(opts) + 1))
            ELSE SaveOptions([opts EXCEPT ![pk] = row], poll, data, Append(kept, pk))

\* `for option in poll.options.exclude(id__in=new_option_ids): option.soft_delete()`
DropOtherOptions(saved, poll) ==
    [rows |-> soft_delete(saved.rows, LiveOptions(saved.rows, poll) \ Range(saved.kept)),
     kept |-> saved.kept]

_handle_options(opts, poll, data) ==
    DropOtherOptions(SaveOptions(opts, poll, data, <<>>), poll)

\* serializer.save(section=section, ordering=...) of one question: the poll
\* row is created or updated, then its options are handled.
SavedPollId(pls, poll_data) ==
    IF poll_data.id = NoId THEN Len(pls) + 1 ELSE poll_data.id

\* super().create(validated_data) / super().update(instance, validated_data)
SavePollRow(pls, section, poll_data, ordering) ==
    IF poll_data.id = NoId
    THEN Append(pls, [section |-> section, text |-> poll_data.text,
                      ordering |-> ordering, n_answers |-> 0, deleted |-> FALSE])
    ELSE [pls EXCEPT ![poll_data.id].section = section,
                     ![poll_data.id].text = poll_data.text,
                     ![poll_data.id].ordering = ordering,
                     ![poll_data.id].deleted = FALSE]

PollSaved(db, pls, poll, handled, ids) ==
    [db |-> [db EXCEPT !.polls = pls, !.options = handled.rows],
     poll |-> poll, ids |-> ids, kept |-> handled.kept]

SavePollAs(db, section, poll_data, ordering, poll) ==
    PollSaved(db, SavePollRow(db.polls, section, poll_data, ordering), poll,
              _handle_options(db.options, poll, poll_data.options),
              [i \in DOMAIN poll_data.options |-> poll_data.options[i].id])

SavePoll(db, section, poll_data, ordering) ==
    SavePollAs(db, section, poll_data, ordering, SavedPollId(db.polls, poll_data))

(***************************************************************************)
(* SectionCreateUpdateSerializer._handle_questions                         *)
(***************************************************************************)
RECURSIVE SavePolls(_, _, _, _)
NextPoll(saved, section, data, done) ==
    SavePolls(saved.db, section, data,
              Append(done, [poll |-> saved.poll, ids |-> saved.ids, kept |-> saved.kept]))

SavePolls(db, section, data, done) ==
    IF Len(done) = Len(data) THEN [db |-> db, done |-> done]
    ELSE NextPoll(SavePoll(db, section, data[Len(done) + 1], Len(done) + 1),
                  section, data, done)

\* `for poll in section.polls.exclude(id__in=new_poll_ids): poll.soft_delete()`
DropOtherPolls(saved, section) ==
    [db |-> [saved.db EXCEPT !.polls =
                soft_delete(saved.db.polls,
                            LivePolls(saved.db.polls, section)
                                \ { saved.done[i].poll : i \in DOMAIN saved.done })],
     done |-> saved.done]

_handle_questions(db, section, data) ==
    DropOtherPolls(SavePolls(db, section, data, <<>>), section)

(***************************************************************************)
(* SectionCreateUpdateSerializer.create / update                           *)
(***************************************************************************)
\* The steps of the body of create/update, in order; an exception may be
\* raised as a step ends.
FailPoints == {"none", "scalars", "images", "questions"}

\* super().create(validated_data) / super().update(instance, validated_data)
SaveSection(secs, instance, payload) ==
    IF instance = NoId THEN Append(secs, [title |-> payload.title])
    ELSE [secs EXCEPT ![instance].title = payload.title]

SavedSectionId(secs, instance) ==
    IF instance = NoId THEN Len(secs) + 1 ELSE instance

\* The body of create/update: what it has written when it returns or raises.
\* db1: the section is saved; hi: the images are handled; hq: the questions.
Outcome(db1, hi, hq, section, fail) ==
    IF fail = "scalars"
    THEN [db |-> db1, raised |-> TRUE, section |-> section, kept |-> <<>>, done |-> <<>>]
    ELSE IF fail = "images"
    THEN [db |-> [db1 EXCEPT !.images = hi.rows], raised |-> TRUE, section |-> section,
          kept |-> hi.kept, done |-> <<>>]
    ELSE [db |-> hq.db, raised |-> fail = "questions", section |-> section,
          kept |-> hi.kept, done |-> hq.done]

Questions(db1, hi, section, payload, fail) ==
    Outcome(db1, hi,
            _handle_questions([db1 EXCEPT !.images = hi.rows], section, payload.questions),
            section, fail)

Images(db1, section, payload, fail) ==
    Questions(db1, _handle_images(db1.images, section, payload.images),
              section, payload, fail)

Body(db, instance, payload, fail) ==
    Images([db EXCEPT !.sections = SaveSection(db.sections, instance, payload)],
           SavedSectionId(db.sections, instance), payload, fail)

\* The decorator left out: what the body wrote stays.
atomic_mutant(db, body) == body.db

\* @transaction.atomic(): the writes of a body that raised are rolled back.
atomic(db, body) == IF body.raised THEN db ELSE body.db

(***************************************************************************)
(* The requests: SectionCreateUpdateSerializer.is_valid() and save().      *)
(***************************************************************************)
\* No request yet.
NoRequest ==
    [op |-> "none", section |-> NoId, status |-> "ok", errors |-> {},
     images |-> <<>>, kept |-> <<>>, qids |-> <<>>, done |-> <<>>,
     foreign |-> FALSE, fail |-> "none", dirty |-> FALSE]

Ids(data) == [i \in DOMAIN data |-> data[i].id]

NewCount(data) == Cardinality({ i \in DOMAIN data : data[i].id = NoId })

RECURSIVE NewOptionCount(_)
NewOptionCount(data) ==
    IF data = <<>> THEN 0
    ELSE NewCount(Head(data).options) + NewOptionCount(Tail(data))

\* The rows a payload would add fit the tables of the model.
Fits(db, payload) ==
    /\ Len(db.images) + NewCount(payload.images) <= MaxImageRows
    /\ Len(db.polls) + NewCount(payload.questions) <= MaxPollRows
    /\ Len(db.options) + NewOptionCount(payload.questions) <= MaxOptionRows

\* The payload carries an id that is not one of the target's: an image or a
\* poll that is no row of the target section, an option that is no row of
\* the poll its question names.
Foreign(db, instance, payload) ==
    \/ \E i \in DOMAIN payload.images :
          LET pk == payload.images[i].id
          IN pk # NoId /\ ~(instance # NoId /\ pk \in DOMAIN db.images
                            /\ db.images[pk].section = instance)
    \/ \E i \in DOMAIN payload.questions :
          LET pk == payload.questions[i].id
          IN pk # NoId /\ ~(instance # NoId /\ pk \in DOMAIN db.polls
                            /\ db.polls[pk].section = instance)
    \/ \E i \in DOMAIN payload.questions : \E j \in DOMAIN payload.questions[i].options :
          LET poll == payload.questions[i].id
              pk == payload.questions[i].options[j].id
          IN pk # NoId /\ ~(poll # NoId /\ pk \in DOMAIN db.options
                            /\ db.options[pk].poll = poll)

\* One create (instance = NoId) or update request, from is_valid() to the
\* end of the transaction.
Seen(db, op, instance, payload) ==
    [NoRequest EXCEPT !.op = op, !.section = instance,
                      !.images = Ids(payload.images),
                      !.qids = Ids(payload.questions),
                      !.foreign = Foreign(db, instance, payload)]

\* The store and the record of the request once the transaction has ended.
Done(db, seen, body, out, fail) ==
    /\ sections' = out.sections
    /\ images' = out.images
    /\ polls' = out.polls
    /\ options' = out.options
    /\ last' = IF body.raised
               THEN [seen EXCEPT !.status = "raised", !.fail = fail,
                                 !.dirty = body.db # db]
               ELSE [seen EXCEPT !.section = body.section,
                                 !.kept = body.kept, !.done = body.done]

Transaction(db, seen, body, fail) == Done(db, seen, body, atomic(db, body), fail)

Respond(db, seen, v, body, fail) ==
    IF v.status # "ok"
    THEN /\ UNCHANGED dbvars
         /\ last' = [seen EXCEPT !.status = v.status, !.errors = v.errors]
    ELSE Transaction(db, seen, body, fail)

Request(op, instance, payload, fail) ==
    /\ UNCHANGED <<orgvars, legacyvars>>
    /\ Fits(DB, payload)
    /\ Respond(DB, Seen(DB, op, instance, payload), is_valid(DB, instance, payload),
               Body(DB, instance, payload, fail), fail)

SectionCreate(payload, fail) ==
    /\ Len(sections) < MaxSections
    /\ Request("create", NoId, payload, fail)

SectionUpdate(instance, payload, fail) ==
    /\ instance \in DOMAIN sections
    /\ Request("update", instance, payload, fail)

\* A poll is answered (the answer endpoint): its cached count grows.
AnswerPoll(poll) ==
    /\ poll \in DOMAIN polls
    /\ ~polls[poll].deleted
    /\ polls[poll].n_answers < MaxAnswers
    /\ polls' = [polls EXCEPT ![poll].n_answers = @ + 1]
    /\ last' = [NoRequest EXCEPT !.op = "answer"]
    /\ UNCHANGED <<sections, images, options, orgvars, legacyvars>>

(***************************************************************************)
(* The payloads.                                                           *)
(***************************************************************************)
\* Lists of at most n elements; an element carries an id of `ids` (NoId: none).
ImagePayloads(ids, n) == SeqsUpTo([id : ids], n)

OptionPayloads(ids, texts, n) == SeqsUpTo([id : ids, text : texts], n)

QuestionPayloads(ids, texts, optionPayloads, n) ==
    SeqsUpTo([id : ids, text : texts, options : optionPayloads], n)

\* The tables a specification does not work on are empty and stay so.
NoOrgs == hearing_org = <<>> /\ admin_organizations = <<>>

NoLegacy ==
    legacy_sections = <<>> /\ comments = <<>> /\ n_comments = <<>> /\ saving = <<>>

Init ==
    /\ sections = <<>>
    /\ images = <<>>
    /\ polls = <<>>
    /\ options = <<>>
    /\ last = NoRequest
    /\ NoOrgs
    /\ NoLegacy

(***************************************************************************)
(* SpecImg: Section requests whose payloads vary in title and images.      *)
(***************************************************************************)
ImgPayloads ==
    [title : {"a"}, images : ImagePayloads(0..MaxImageRows, MaxImgLen), questions : {<<>>}]

ImgNext ==
    \/ \E payload \in ImgPayloads : SectionCreate(payload, "none")
    \/ \E instance \in DOMAIN sections, payload \in ImgPayloads :
          SectionUpdate(instance, payload, "none")

SpecImg == Init /\ [][ImgNext]_vars

(***************************************************************************)
(* SpecPoll: Section requests whose payloads vary in the questions.        *)
(***************************************************************************)
PollPayloads ==
    [title : {"a"}, images : {<<>>},
     questions : QuestionPayloads(0..MaxPollRows, Texts,
                                  OptionPayloads(0..MaxOptionRows, Texts, MaxOptLen),
                                  MaxQLen)]

PollNext ==
    \/ \E payload \in PollPayloads : SectionCreate(payload, "none")
    \/ \E instance \in DOMAIN sections, payload \in PollPayloads :
          SectionUpdate(instance, payload, "none")
    \/ \E poll \in DOMAIN polls : AnswerPoll(poll)

SpecPoll == Init /\ [][PollNext]_vars

(***************************************************************************)
(* SpecAtomic: Section requests whose body may raise at any step.          *)
(***************************************************************************)
AtomicPayloads ==
    [title : Texts, images : ImagePayloads(0..1, 1),
     questions : QuestionPayloads(0..1, {"a"}, OptionPayloads({NoId}, {"a"}, 1), 1)]

AtomicNext ==
    \/ \E payload \in AtomicPayloads, fail \in FailPoints :
          sections = <<>> /\ SectionCreate(payload, fail)
    \/ \E instance \in DOMAIN sections, payload \in AtomicPayloads, fail \in FailPoints :
          SectionUpdate(instance, payload, fail)

SpecAtomic == Init /\ [][AtomicNext]_vars

(***************************************************************************)
(* The read side: to_representation lists `instance.images.all()` and      *)
(* `instance.options.all()`.                                               *)
(***************************************************************************)
ImagesAll(imgs, sid) == SortByOrdering(imgs, LiveImages(imgs, sid))

NoDuplicates(seq) == \A i, j \in DOMAIN seq : seq[i] = seq[j] => i = j

\* The entries of last.done that are the last save of their poll in the request.
LastSaves(done) ==
    { k \in DOMAIN done : \A k2 \in DOMAIN done : k2 > k => done[k2].poll # done[k].poll }

(***************************************************************************)
(* C1.  A poll that has answers and is addressed by its id in a Section    *)
(* update keeps its text and its options (their set, their texts, their    *)
(* number): a payload that would change them is rejected and changes       *)
(* nothing.                                                                *)
(***************************************************************************)
OptionsOf(opts, poll) ==
    { <<i, opts[i].text, opts[i].deleted>> : i \in { j \in DOMAIN opts : opts[j].poll = poll } }

C1_AnsweredPollUnchanged ==
    [][\A poll \in DOMAIN polls :
          (/\ polls[poll].n_answers > 0
           /\ last'.op = "update"
           /\ poll \in Range(last'.qids))
          => /\ polls'[poll].text = polls[poll].text
             /\ OptionsOf(options', poll) = OptionsOf(options, poll)]_vars

(***************************************************************************)
(* C2.  A Section create or update whose body raises at any step, or whose *)
(* validation fails, persists nothing: the store is as it was before the   *)
(* request.                                                                *)
(***************************************************************************)
C2_Atomic ==
    [][last'.status # "ok" => UNCHANGED dbvars]_vars

\* A request raised after the questions were handled, and its body had
\* written to the store by then.
C2_Witness ==
    /\ last.status = "raised"
    /\ last.fail = "questions"
    /\ last.dirty

(***************************************************************************)
(* C3.  After a successful Section update the live images of the section   *)
(* are exactly the images of the payload: the ones named by id and the     *)
(* newly created ones are not deleted, every other image of the section is *)
(* soft-deleted, no row is removed, and the image list of the section      *)
(* holds no soft-deleted image.                                            *)
(***************************************************************************)
C3_After(imgs, req) ==
    (req.op = "update" /\ req.status = "ok") =>
        /\ Len(req.kept) = Len(req.images)
        /\ \A i \in DOMAIN req.images : req.images[i] # NoId => req.kept[i] = req.images[i]
        /\ LiveImages(imgs, req.section) = Range(req.kept)
        /\ \A i \in DOMAIN imgs :
              imgs[i].section = req.section =>
                  (imgs[i].deleted <=> i \notin Range(req.kept))
        /\ Range(ImagesAll(imgs, req.section)) = Range(req.kept)
        /\ \A i \in Range(ImagesAll(imgs, req.section)) : ~imgs[i].deleted

C3_ImagesOfPayload ==
    [][/\ C3_After(images', last')
       /\ DOMAIN images \subseteq DOMAIN images'
       /\ (last'.op = "update" /\ last'.status = "ok") =>
             \A i \in DOMAIN last'.images :
                 last'.images[i] = NoId => last'.kept[i] \notin DOMAIN images]_vars

\* An update kept an image by its id, created one and soft-deleted one.
C3_Witness ==
    /\ last.op = "update"
    /\ last.status = "ok"
    /\ \E i \in DOMAIN last.images : last.images[i] # NoId
    /\ \E i \in DOMAIN last.images : last.images[i] = NoId
    /\ \E i \in DOMAIN images :
          images[i].section = last.section /\ images[i].deleted

(***************************************************************************)
(* C8.  After a successful save of a poll with the options array           *)
(* [o1, ..., on] the live options of the poll are exactly those n options, *)
(* the option at zero-based position i has ordering i + 1, every other     *)
(* option of the poll is soft-deleted and the read representation lists    *)
(* the options in ascending ordering.                                      *)
(***************************************************************************)
C8_After(opts, saved) ==
    /\ LiveOptions(opts, saved.poll) = Range(saved.kept)
    /\ Cardinality(LiveOptions(opts, saved.poll)) = Len(saved.kept)
    /\ \A i \in DOMAIN saved.kept : opts[saved.kept[i]].ordering = i
    /\ \A i \in DOMAIN opts :
          (opts[i].poll = saved.poll /\ i \notin Range(saved.kept)) => opts[i].deleted
    /\ OptionsAll(opts, saved.poll) = saved.kept

\* The claim as it stands, for every options array.
C8_Original ==
    (last.op \in {"create", "update"} /\ last.status = "ok") =>
        \A k \in LastSaves(last.done) : C8_After(options, last.done[k])

\* C8 as amended: the live options are the options the entries of the array
\* name or create, each with the ordering of the last position at which it
\* occurs; where no id occurs twice these are n options, the one at
\* zero-based position i with ordering i + 1, listed in the array's order.
C8_AmendedAfter(opts, saved, listed) ==
    /\ LiveOptions(opts, saved.poll) = Range(saved.kept)
    /\ \A i \in DOMAIN saved.kept :
          (\A j \in DOMAIN saved.kept : j > i => saved.kept[j] # saved.kept[i])
              => opts[saved.kept[i]].ordering = i
    /\ \A i \in DOMAIN opts :
          (opts[i].poll = saved.poll /\ i \notin Range(saved.kept)) => opts[i].deleted
    /\ Range(listed) = Range(saved.kept)
    /\ \A x, y \in DOMAIN listed :
          x < y => opts[listed[x]].ordering <= opts[listed[y]].ordering
    /\ NoDuplicates(saved.kept) =>
          /\ Cardinality(Range(listed)) = Len(saved.kept)
          /\ listed = saved.kept

C8_OptionsOfPayload ==
    (last.op \in {"create", "update"} /\ last.status = "ok") =>
        \A k \in LastSaves(last.done) :
            C8_AmendedAfter(options, last.done[k], OptionsAll(options, last.done[k].poll))

\* A poll was saved with two options, one carried by its id and one new.
C8_Witness ==
    /\ last.op = "update"
    /\ last.status = "ok"
    /\ \E k \in LastSaves(last.done) :
          /\ Len(last.done[k].kept) = 2
          /\ NoDuplicates(last.done[k].kept)
          /\ \E i \in 1..2 : last.done[k].ids[i] # NoId
          /\ \E i \in 1..2 : last.done[k].ids[i] = NoId

(***************************************************************************)
(* C10.  A payload element that carries an id which is not one of the      *)
(* target section's (an image, a poll) or of the target poll's (an option) *)
(* makes validation fail with a NotFound field error, with no other kind   *)
(* of failure, whether the parent exists or is being created, and nothing  *)
(* is persisted.                                                           *)
(***************************************************************************)
NotFoundMessages ==
    { ImageNotFound(NoId).err, PollNotFound(NoId).err, OptionNotFound(NoId).err }

C10_ForeignIdNotFound ==
    [][last'.foreign =>
          /\ last'.status = "invalid"
          /\ \E e \in last'.errors : e.err \in NotFoundMessages
          /\ UNCHANGED dbvars]_vars

(***************************************************************************)
(* The root image endpoint: RootSectionImageSerializer and ImageViewSet.   *)
(***************************************************************************)
\* `target_org = section.hearing.organization` of a hearing without one.
NoOrg == 0

Users == {"u1", "u2"}

\* Admin of some organisation, whichever.
_is_user_organisation_admin_mutant(user, section) ==
    /\ hearing_org[section] # NoOrg
    /\ admin_organizations[user] # {}

_is_user_organisation_admin(user, section) ==
    /\ hearing_org[section] # NoOrg
    /\ hearing_org[section] \in admin_organizations[user]

\* `section_images = section_image.section.images.all()`, read once the new
\* row is stored; `if section_images.exists(): ... Max('ordering') + 1`.
Reordered(imgs, section_image, section_images) ==
    IF section_images # {}
    THEN [imgs EXCEPT ![section_image].ordering =
              SetMax({ imgs[i].ordering : i \in section_images }) + 1]
    ELSE imgs

Stored(imgs, section_image) ==
    Reordered(imgs, section_image, LiveImages(imgs, imgs[section_image].section))

\* RootSectionImageSerializer.create
RootImageCreate(imgs, section, ordering) ==
    Stored(Append(imgs, [section |-> section, ordering |-> ordering, deleted |-> FALSE]),
           Len(imgs) + 1)

RootRequest(op, user, image, section, ordering, status) ==
    [op |-> op, user |-> user, image |-> image, section |-> section,
     ordering |-> ordering, status |-> status]

NoRootRequest == RootRequest("none", "u1", NoId, NoId, 0, "ok")

perform_create(user, section, ordering) ==
    /\ section \in DOMAIN sections
    /\ Len(images) < MaxImageRows
    /\ IF _is_user_organisation_admin(user, section)
       THEN /\ images' = RootImageCreate(images, section, ordering)
            /\ last' = RootRequest("create", user, Len(images) + 1, section, ordering, "ok")
       ELSE /\ UNCHANGED images
            /\ last' = RootRequest("create", user, NoId, section, ordering, "denied")
    /\ UNCHANGED <<sections, polls, options, orgvars, legacyvars>>

\* get_queryset(): the endpoint finds the images that are not soft-deleted.
RootImages == { i \in DOMAIN images : ~images[i].deleted }

perform_update(user, image, section, ordering) ==
    /\ image \in RootImages
    /\ section \in DOMAIN sections
    /\ IF _is_user_organisation_admin(user, images[image].section)
       THEN /\ images' = [images EXCEPT ![image].section = section,
                                        ![image].ordering = ordering]
            /\ last' = RootRequest("update", user, image, section, ordering, "ok")
       ELSE /\ UNCHANGED images
            /\ last' = RootRequest("update", user, image, section, ordering, "denied")
    /\ UNCHANGED <<sections, polls, options, orgvars, legacyvars>>

perform_destroy(user, image) ==
    /\ image \in RootImages
    /\ IF _is_user_organisation_admin(user, images[image].section)
       THEN /\ images' = soft_delete(images, {image})
            /\ last' = RootRequest("destroy", user, image, images[image].section, 0, "ok")
       ELSE /\ UNCHANGED images
            /\ last' = RootRequest("destroy", user, image, images[image].section, 0, "denied")
    /\ UNCHANGED <<sections, polls, options, orgvars, legacyvars>>

\* Three sections: of a hearing of organisation 1, of one of organisation 2
\* and of one without an organisation; u1 administers organisation 1, u2 none.
RootInit ==
    /\ sections = <<[title |-> "a"], [title |-> "a"], [title |-> "a"]>>
    /\ images = <<>>
    /\ polls = <<>>
    /\ options = <<>>
    /\ hearing_org = <<1, 2, NoOrg>>
    /\ admin_organizations = [u \in Users |-> IF u = "u1" THEN {1} ELSE {}]
    /\ last = NoRootRequest
    /\ NoLegacy

RootNext ==
    \/ \E user \in Users, section \in DOMAIN sections, ordering \in 0..MaxSubmitted :
          perform_create(user, section, ordering)
    \/ \E user \in Users, image \in DOMAIN images, section \in DOMAIN sections,
          ordering \in 0..MaxSubmitted :
          perform_update(user, image, section, ordering)
    \/ \E user \in Users, image \in DOMAIN images : perform_destroy(user, image)

SpecRoot == RootInit /\ [][RootNext]_vars

(***************************************************************************)
(* C4.  An image created through the root endpoint in a section that has   *)
(* other images gets the ordering one above the maximum ordering of those  *)
(* images; in a section without other images it keeps the ordering it was  *)
(* submitted with.                                                         *)
(***************************************************************************)
C4_After(before, after, req) ==
    (req.op = "create" /\ req.status = "ok") =>
        after[req.image].ordering =
            IF LiveImages(before, req.section) # {}
            THEN SetMax({ before[i].ordering : i \in LiveImages(before, req.section) }) + 1
            ELSE req.ordering

C4_RootOrdering == [][C4_After(images, images', last')]_vars

(***************************************************************************)
(* C5.  A create, update or delete on the root image endpoint by a user    *)
(* who is not an admin of the organisation of the hearing of the image's   *)
(* section is denied and persists nothing; by an admin of it it succeeds,  *)
(* and a successful delete only sets the soft-delete flag.                 *)
(***************************************************************************)
IsAdminOf(user, section) ==
    \E org \in admin_organizations[user] : org # NoOrg /\ org = hearing_org[section]

\* The section the permission of a request is about: the one submitted on a
\* create, the one the image is in on an update or a delete.
SectionOf(imgs, req) ==
    IF req.op = "create" THEN req.section ELSE imgs[req.image].section

C5_After(before, after, req) ==
    req.op \in {"create", "update", "destroy"} =>
        IF IsAdminOf(req.user, SectionOf(before, req))
        THEN /\ req.status = "ok"
             /\ req.op = "destroy" =>
                   after = [before EXCEPT ![req.image].deleted = TRUE]
        ELSE /\ req.status = "denied"
             /\ after = before

C5_AdminGate == [][C5_After(images, images', last')]_vars

\* A delete was denied to a user who administers no organisation, after an
\* admin had deleted an image.
C5_Witness ==
    /\ last.op = "destroy"
    /\ last.status = "denied"
    /\ ~images[last.image].deleted
    /\ \E i \in DOMAIN images : images[i].deleted

(***************************************************************************)
(* C11.  After a successful update through the root image endpoint the     *)
(* requester is an admin of the organisation of the hearing of the section *)
(* the image is in after the update: no update moves an image into a       *)
(* section of an organisation the requester does not administer.           *)
(***************************************************************************)
C11_After(after, req) ==
    (req.op = "update" /\ req.status = "ok") =>
        IsAdminOf(req.user, after[req.image].section)

C11_UpdateTargetAdmin == [][C11_After(images', last')]_vars

(***************************************************************************)
(* kk/models/section.py: the legacy Section and its ordering.              *)
(***************************************************************************)
Hearings == {1, 2}

\* `ordering = models.IntegerField(..., default=0, ...)`
DefaultOrdering == 0

\* `self.hearing.sections.values_list("ordering", flat=True)`
SiblingOrderings(rows, hearing) ==
    { rows[i].ordering : i \in { j \in DOMAIN rows : rows[j].hearing = hearing } }

\* One more than the number of siblings.
NextOrdering_mutant(rows, hearing) ==
    Cardinality({ j \in DOMAIN rows : rows[j].hearing = hearing }) + 1

\* `max(... or [0]) + 1`
NextOrdering(rows, hearing) ==
    IF SiblingOrderings(rows, hearing) = {} THEN SetMax({0}) + 1
    ELSE SetMax(SiblingOrderings(rows, hearing)) + 1

\* Section.save() of an instance with the fields self: the ordering it is
\* stored with.
SavedOrdering(rows, self) ==
    IF ~self.pk /\ self.ordering = 0 /\ self.hearing # NoId
    THEN NextOrdering(rows, self.hearing)
    ELSE self.ordering

LegacyRequest(op, id, self, given, status) ==
    [op |-> op, id |-> id, self |-> self, given |-> given, status |-> status]

NoLegacyRequest ==
    LegacyRequest("none", NoId, [pk |-> FALSE, ordering |-> 0, hearing |-> NoId], FALSE, "ok")

\* Section(hearing=..., [ordering=...], [id=...]).save(): the first save of a
\* new section.  given: the caller passed an ordering; pk: the caller set
\* the primary key.  Without a hearing the store refuses the row.
LegacyCreate(hearing, given, ordering, pk) ==
    /\ Len(legacy_sections) < MaxLegacyRows
    /\ given \/ ordering = DefaultOrdering
    /\ IF hearing = NoId
       THEN /\ UNCHANGED legacy_sections
            /\ last' = LegacyRequest("create", NoId,
                                     [pk |-> pk, ordering |-> ordering, hearing |-> hearing],
                                     given, "error")
       ELSE /\ legacy_sections' =
                  Append(legacy_sections,
                         [hearing |-> hearing,
                          ordering |-> SavedOrdering(legacy_sections,
                                          [pk |-> pk, ordering |-> ordering,
                                           hearing |-> hearing])])
            /\ last' = LegacyRequest("create", Len(legacy_sections) + 1,
                                     [pk |-> pk, ordering |-> ordering, hearing |-> hearing],
                                     given, "ok")
    /\ UNCHANGED <<dbvars, orgvars, comments, n_comments, saving>>

\* A later save() of a stored section, its ordering field as the caller
\* left or set it.
LegacySave(id, ordering) ==
    /\ id \in DOMAIN legacy_sections
    /\ legacy_sections' =
          [legacy_sections EXCEPT ![id].ordering =
              SavedOrdering(legacy_sections,
                            [pk |-> TRUE, ordering |-> ordering,
                             hearing |-> legacy_sections[id].hearing])]
    /\ last' = LegacyRequest("save", id,
                             [pk |-> TRUE, ordering |-> ordering,
                              hearing |-> legacy_sections[id].hearing],
                             TRUE, "ok")
    /\ UNCHANGED <<dbvars, orgvars, comments, n_comments, saving>>

LegacyInit ==
    /\ sections = <<>>
    /\ images = <<>>
    /\ polls = <<>>
    /\ options = <<>>
    /\ NoOrgs
    /\ legacy_sections = <<>>
    /\ comments = <<>>
    /\ n_comments = <<>>
    /\ saving = <<>>
    /\ last = NoLegacyRequest

LegacyNext ==
    \/ \E hearing \in Hearings \cup {NoId}, given \in BOOLEAN, ordering \in 0..MaxExplicit,
          pk \in BOOLEAN :
          LegacyCreate(hearing, given, ordering, pk)
    \/ \E id \in DOMAIN legacy_sections, ordering \in 0..MaxExplicit :
          LegacySave(id, ordering)

SpecLegacy == LegacyInit /\ [][LegacyNext]_vars

(***************************************************************************)
(* C6.  A new legacy Section saved for the first time under a hearing with *)
(* no explicit ordering gets the maximum ordering of the hearing's         *)
(* sections (0 if there are none) plus 1; one created with an explicit     *)
(* ordering keeps it; a later save of a stored section does not recompute  *)
(* its ordering.                                                           *)
(***************************************************************************)
MaxSibling(rows, hearing) ==
    SetMax(SiblingOrderings(rows, hearing) \cup {0})

\* The claim as it stands.
C6_OriginalAfter(before, after, req) ==
    /\ (req.op = "create" /\ req.status = "ok") =>
          after[req.id].ordering =
              IF req.given THEN req.self.ordering
              ELSE MaxSibling(before, req.self.hearing) + 1
    /\ req.op = "save" => after[req.id].ordering = req.self.ordering

C6_Original == [][C6_OriginalAfter(legacy_sections, legacy_sections', last')]_vars

\* C6 as amended: the ordering is derived on a first save without a primary
\* key set beforehand and with the ordering unset or 0; an explicit ordering
\* other than 0 is kept.
C6_After(before, after, req) ==
    /\ (req.op = "create" /\ req.status = "ok") =>
          after[req.id].ordering =
              IF ~req.self.pk /\ (~req.given \/ req.self.ordering = 0)
              THEN MaxSibling(before, req.self.hearing) + 1
              ELSE req.self.ordering
    /\ req.op = "save" => after[req.id].ordering = req.self.ordering
    /\ \A i \in DOMAIN before : i # req.id => after[i] = before[i]

C6_LegacyOrdering == [][C6_After(legacy_sections, legacy_sections', last')]_vars

\* The third section of a hearing, created without an ordering, got 3 where
\* the hearing's sections had 1 and 2.
C6_Witness ==
    /\ last.op = "create"
    /\ last.status = "ok"
    /\ ~last.given
    /\ ~last.self.pk
    /\ legacy_sections[last.id].ordering = 3
    /\ \E i, j \in DOMAIN legacy_sections :
          /\ legacy_sections[i] = [hearing |-> last.self.hearing, ordering |-> 1]
          /\ legacy_sections[j] = [hearing |-> last.self.hearing, ordering |-> 2]

(***************************************************************************)
(* kk/models: the comments of the legacy Scenario and Section and the      *)
(* post_save hooks that keep the owners' n_comments.                       *)
(***************************************************************************)
Kinds == {"scenario", "section"}

Owners == {1, 2}

\* The live comments of an owner: `self.comments` under the default manager.
LiveComments(cmts, kind, owner) ==
    { i \in DOMAIN cmts :
        cmts[i].kind = kind /\ cmts[i].owner = owner /\ ~cmts[i].deleted }

\* owner.recache_n_comments(): the cached count recomputed from the live
\* comments.
recache_n_comments(cmts, counts, kind, owner) ==
    [counts EXCEPT ![kind][owner] = Cardinality(LiveComments(cmts, kind, owner))]

\* `instance.scenario.recache_n_comments()`
scenario_n_comments_bump(cmts, counts, instance) ==
    recache_n_comments(cmts, counts, "scenario", cmts[instance].owner)

\* The hook `recache_on_save` connects for SectionComment.
recache_on_save(cmts, counts, instance) ==
    recache_n_comments(cmts, counts, "section", cmts[instance].owner)

\* post_save of a comment: the hook connected for its class.
post_save(cmts, counts, instance) ==
    IF cmts[instance].kind = "scenario"
    THEN scenario_n_comments_bump(cmts, counts, instance)
    ELSE recache_on_save(cmts, counts, instance)

CommentRequest(op, id, kind, owner, cached) ==
    [op |-> op, id |-> id, kind |-> kind, owner |-> owner, cached |-> cached]

NoCommentRequest == CommentRequest("none", NoId, "scenario", NoId, 0)

\* The stored comments after a save, then the hook on the saved instance.
CommentSaved(cmts, op, id) ==
    /\ comments' = cmts
    /\ n_comments' = post_save(cmts, n_comments, id)
    /\ last' = CommentRequest(op, id, cmts[id].kind, cmts[id].owner,
                              n_comments[cmts[id].kind][cmts[id].owner])
    /\ UNCHANGED <<dbvars, orgvars, legacy_sections, saving>>

\* ScenarioComment(scenario=owner).save() / SectionComment(section=owner).save()
CommentCreate(kind, owner) ==
    /\ Len(comments) < MaxComments
    /\ CommentSaved(Append(comments, [kind |-> kind, owner |-> owner, deleted |-> FALSE]),
                    "create", Len(comments) + 1)

\* save() of a stored comment with the owner and the deleted flag the caller
\* left or set.
CommentSave(id, owner, deleted) ==
    /\ id \in DOMAIN comments
    /\ CommentSaved([comments EXCEPT ![id].owner = owner, ![id].deleted = deleted],
                    "save", id)

CommentsInit ==
    /\ sections = <<>>
    /\ images = <<>>
    /\ polls = <<>>
    /\ options = <<>>
    /\ NoOrgs
    /\ legacy_sections = <<>>
    /\ comments = <<>>
    /\ n_comments = [kind \in Kinds |-> [owner \in Owners |-> 0]]
    /\ saving = <<>>
    /\ last = NoCommentRequest

CommentsNext ==
    \/ \E kind \in Kinds, owner \in Owners : CommentCreate(kind, owner)
    \/ \E id \in DOMAIN comments, owner \in Owners, deleted \in BOOLEAN :
          CommentSave(id, owner, deleted)

SpecComments == CommentsInit /\ [][CommentsNext]_vars

(***************************************************************************)
(* C7.  Immediately after every save of a ScenarioComment or a legacy      *)
(* SectionComment (a creation or an update) the cached n_comments of the   *)
(* comment's owner equals the number of the owner's live comments, and a   *)
(* comment created on an owner whose cached count is 2 makes it 3.         *)
(***************************************************************************)
C7_After(cmts, before, after, req) ==
    /\ after[req.kind][req.owner] = Cardinality(LiveComments(cmts, req.kind, req.owner))
    /\ (req.op = "create" /\ before[req.kind][req.owner] = 2) =>
          after[req.kind][req.owner] = 3

C7_CommentCount ==
    [][last'.op \in {"create", "save"} => C7_After(comments', n_comments, n_comments', last')]_vars

(***************************************************************************)
(* kk/models/section.py: Section.save() called by concurrent callers.  A   *)
(* save is two statements on the database, the read of the siblings'       *)
(* orderings and the insert of the row; statements of different callers    *)
(* interleave.                                                             *)
(***************************************************************************)
Savers == {"s1", "s2"}

Idle == [pc |-> "idle", hearing |-> NoId, ordering |-> DefaultOrdering]

\* The rows the saves in progress are about to insert.
InFlight == Cardinality({ p \in Savers : saving[p].pc = "read" })

\* Lines 29-31 of a new Section of `hearing` with no ordering and no primary
\* key: the ordering is derived from the rows stored now.
SaveRead(p, hearing) ==
    /\ saving[p].pc = "idle"
    /\ Len(legacy_sections) + InFlight < MaxLegacyRows
    /\ saving' = [saving EXCEPT ![p] =
                     [pc |-> "read", hearing |-> hearing,
                      ordering |-> SavedOrdering(legacy_sections,
                                      [pk |-> FALSE, ordering |-> DefaultOrdering,
                                       hearing |-> hearing])]]
    /\ UNCHANGED <<dbvars, orgvars, legacy_sections, comments, n_comments, last>>

\* Line 32, `super(Section, self).save(...)`: the row is inserted with the
\* ordering derived before.
SaveWrite(p) ==
    /\ saving[p].pc = "read"
    /\ legacy_sections' = Append(legacy_sections,
                                 [hearing |-> saving[p].hearing,
                                  ordering |-> saving[p].ordering])
    /\ saving' = [saving EXCEPT ![p] = Idle]
    /\ last' = LegacyRequest("create", Len(legacy_sections) + 1,
                             [pk |-> FALSE, ordering |-> DefaultOrdering,
                              hearing |-> saving[p].hearing],
                             FALSE, "ok")
    /\ UNCHANGED <<dbvars, orgvars, comments, n_comments>>

RaceInit ==
    /\ sections = <<>>
    /\ images = <<>>
    /\ polls = <<>>
    /\ options = <<>>
    /\ NoOrgs
    /\ legacy_sections = <<>>
    /\ comments = <<>>
    /\ n_comments = <<>>
    /\ saving = [p \in Savers |-> Idle]
    /\ last = NoLegacyRequest

RaceNext ==
    \/ \E p \in Savers, hearing \in Hearings : SaveRead(p, hearing)
    \/ \E p \in Savers : SaveWrite(p)

SpecRace == RaceInit /\ [][RaceNext]_vars

(***************************************************************************)
(* C12.  Under any interleaving of concurrent first saves of legacy        *)
(* Sections of one hearing, none with an explicit ordering, no two         *)
(* sections of the hearing have the same ordering.                         *)
(***************************************************************************)
C12_DistinctOrderings ==
    \A i, j \in DOMAIN legacy_sections :
        (/\ legacy_sections[i].hearing = legacy_sections[j].hearing
         /\ legacy_sections[i].ordering = legacy_sections[j].ordering) => i = j

====
